---- MODULE Spec2Model ----
(***************************************************************************)
(* Model of reptar's configuration store (class Config and                 *)
(* valueToFunction) and of the render orchestrator                         *)
(* (lib/renderer/renderer.js: Renderer.renderFileWithPlugins).             *)
(*                                                                         *)
(* JavaScript strings are sequences of one-character strings, so that      *)
(* lengths, path resolution and regular-expression matching are computed   *)
(* character by character.  Every JavaScript value that the configuration  *)
(* tree can hold at a leaf is a record [t, v]: t is its type tag and v the  *)
(* characters of a string / the source of a regular expression / the name  *)
(* of a function or object.                                                *)
(***************************************************************************)
EXTENDS Integers, Sequences, FiniteSets, TLC

VARIABLES
  raw,        \* Config._raw
  lastSrc,    \* what loadConfigFile returned in the most recent update()
  lastOp,     \* "none" | "update" | "get": the most recent Config call
  updRes,     \* outcome of the most recent update(): "none" | "ok" | error
  getRes,     \* outcome of the most recent get()
  runs,       \* update() calls made since the configuration file last changed
  pc,         \* renderFileWithPlugins: position of each call
  file,       \* renderFileWithPlugins: each call's `file` binding
  renderedFile, \* renderFileWithPlugins: each call's `renderedFile` binding
  pending,    \* dispatches of the plugin manager awaiting settlement
  outcome,    \* what each call's promise settled to
  log,        \* per call, the externally visible events in order
  mValue,     \* valueToFunction: the value handed in
  mPath,      \* the candidate file path the compiled predicate is applied to
  mResult     \* what valueToFunction / the predicate produced

configVars == <<raw, lastSrc, lastOp, updRes, getRes, runs>>
renderVars == <<pc, file, renderedFile, pending, outcome, log>>
matchVars  == <<mValue, mPath, mResult>>
vars == <<raw, lastSrc, lastOp, updRes, getRes, runs,
          pc, file, renderedFile, pending, outcome, log,
          mValue, mPath, mResult>>

-----------------------------------------------------------------------------
(* JavaScript values *)

Str(s)  == [t |-> "string",    v |-> s]
Fn(n)   == [t |-> "function",  v |-> <<n>>]
Obj(n)  == [t |-> "object",    v |-> <<n>>]
Bool(b) == [t |-> "boolean",   v |-> <<b>>]
Undefined == [t |-> "undefined", v |-> <<>>]
Null      == [t |-> "null",      v |-> <<>>]

\* `x == null` / `x != null` of JavaScript: true of null and of undefined.
IsNil(x) == x.t \in {"undefined", "null"}

IsString(x) == x.t = "string"
IsFunction(x) == x.t = "function"

-----------------------------------------------------------------------------
(* path.resolve *)

RECURSIVE SplitFrom(_, _, _)
\* s.split('/') : cur is the segment being read, i the next index.
SplitFrom(s, i, cur) ==
  IF i > Len(s) THEN <<cur>>
  ELSE IF s[i] = "/" THEN <<cur>> \o SplitFrom(s, i + 1, <<>>)
  ELSE SplitFrom(s, i + 1, Append(cur, s[i]))

Split(s) == SplitFrom(s, 1, <<>>)

RECURSIVE NormalizeSegs(_, _)
\* normalizeString of an absolute path: '' and '.' are dropped, '..' removes
\* the segment before it and is itself dropped at the root.
NormalizeSegs(segs, acc) ==
  IF segs = <<>> THEN acc
  ELSE LET h == Head(segs) IN
    IF h = <<>> \/ h = <<".">> THEN NormalizeSegs(Tail(segs), acc)
    ELSE IF h = <<".", ".">>
      THEN NormalizeSegs(Tail(segs),
             IF acc = <<>> THEN acc ELSE SubSeq(acc, 1, Len(acc) - 1))
      ELSE NormalizeSegs(Tail(segs), Append(acc, h))

RECURSIVE JoinAbs(_)
JoinAbs(segs) ==
  IF segs = <<>> THEN <<>> ELSE <<"/">> \o Head(segs) \o JoinAbs(Tail(segs))

IsAbsolute(s) == Len(s) > 0 /\ s[1] = "/"

\* path.resolve(from, to) with `from` absolute.
PathResolve(from, to) ==
  LET joined == IF IsAbsolute(to) THEN to ELSE from \o <<"/">> \o to
      segs == NormalizeSegs(Split(joined), <<>>)
  IN IF segs = <<>> THEN <<"/">> ELSE JoinAbs(segs)

-----------------------------------------------------------------------------
(* Regular expressions: new RegExp(source) and String.prototype.match *)

MaxStrLen == 3

\* The characters strings and candidate paths are built from: two ordinary
\* characters and two that are special in a regular expression.
Chars == {"a", "b", ".", "*"}

RECURSIVE StringsUpTo(_)
StringsUpTo(n) ==
  IF n = 0 THEN {<<>>}
  ELSE LET shorter == StringsUpTo(n - 1)
       IN shorter \cup {Append(s, c) : s \in {x \in shorter : Len(x) = n - 1},
                                       c \in Chars}

Strings == StringsUpTo(MaxStrLen)

Re(src) == [t |-> "regexp", v |-> src]

IsAnchored(src) == Len(src) > 0 /\ src[1] = "^"

PatternBody(src) == IF IsAnchored(src) THEN Tail(src) ELSE src

\* new RegExp(source) throws a SyntaxError ("nothing to repeat") when a
\* quantifier has no atom before it.
RegExpSyntaxOk(src) ==
  LET body == PatternBody(src)
  IN \A i \in 1..Len(body) :
       body[i] = "*" => (i > 1 /\ body[i - 1] # "*")

\* One atom of the pattern against one character.
AtomMatches(a, c) == a = "." \/ a = c

RECURSIVE MatchAt(_, _, _, _)
\* Whether body[i..] matches some prefix of p[j..].
MatchAt(body, i, p, j) ==
  IF i > Len(body) THEN TRUE
  ELSE IF i < Len(body) /\ body[i + 1] = "*"
    THEN \/ MatchAt(body, i + 2, p, j)
         \/ /\ j <= Len(p)
            /\ AtomMatches(body[i], p[j])
            /\ MatchAt(body, i, p, j + 1)
    ELSE /\ j <= Len(p)
         /\ AtomMatches(body[i], p[j])
         /\ MatchAt(body, i + 1, p, j + 1)

\* filePath.match(regExp) !== null
RegExpMatch(src, p) ==
  IF IsAnchored(src) THEN MatchAt(PatternBody(src), 1, p, 1)
  ELSE \E start \in 1..(Len(p) + 1) : MatchAt(src, 1, p, start)

-----------------------------------------------------------------------------
(* valueToFunction *)

\* The arrow function `filePath => filePath.match(regExp) !== null`, closed
\* over regExp.
MatchClosure(regExp) == [t |-> "function", v |-> <<"filePath.match">> \o regExp.v]

IsMatchClosure(f) == f.t = "function" /\ Len(f.v) > 0 /\ f.v[1] = "filePath.match"

SyntaxError(src) == [t |-> "SyntaxError", v |-> src]

IsThrown(x) == x.t \in {"SyntaxError", "ModuleNotFound"}

\* `^${functionValue}`
AnchoredSource(s) == <<"^">> \o s

\* Line 71: new RegExp(`^${functionValue}`)
StringToRegExp(s) ==
  IF RegExpSyntaxOk(AnchoredSource(s)) THEN Re(AnchoredSource(s))
  ELSE SyntaxError(AnchoredSource(s))

ValueToFunction(value) ==
  LET functionValue == IF IsString(value) THEN StringToRegExp(value.v) ELSE value
  IN IF IsThrown(functionValue) THEN functionValue
     ELSE IF ~IsFunction(functionValue) THEN MatchClosure(functionValue)
     ELSE functionValue

\* Functions the configuration supplies itself, by name.
UserFunctions == {"always", "never"}

\* Calling a predicate on a candidate path.
CallPredicate(f, p) ==
  IF IsMatchClosure(f) THEN RegExpMatch(Tail(f.v), p)
  ELSE f.v = <<"always">>

\* The values valueToFunction documents as its input: string, RegExp, function.
MatchValues ==
  {Str(s) : s \in Strings}
    \cup {Re(s) : s \in {x \in Strings : RegExpSyntaxOk(x)}}
    \cup {Re(AnchoredSource(s)) : s \in {x \in Strings : RegExpSyntaxOk(AnchoredSource(x))}}
    \cup {Fn(n) : n \in UserFunctions}

MatchIdle == [stage |-> "idle", fn |-> Undefined, matched |-> FALSE]

\* valueToFunction(value) is called.
Compile ==
  /\ mResult.stage = "start"
  /\ mResult' = [stage |-> IF IsThrown(ValueToFunction(mValue)) THEN "threw" ELSE "compiled",
                 fn |-> ValueToFunction(mValue), matched |-> FALSE]
  /\ UNCHANGED <<mValue, mPath>>
  /\ UNCHANGED configVars /\ UNCHANGED renderVars

\* The compiled predicate is applied to a file path.
Apply ==
  /\ mResult.stage = "compiled"
  /\ mResult' = [mResult EXCEPT !.stage = "applied",
                                !.matched = CallPredicate(mResult.fn, mPath)]
  /\ UNCHANGED <<mValue, mPath>>
  /\ UNCHANGED configVars /\ UNCHANGED renderVars


-----------------------------------------------------------------------------
(* Renderer.renderFileWithPlugins *)

NumCalls == 2

Calls == 1..NumCalls

\* File objects are references: id names the object the caller passed in,
\* sub says the reference is to a replacement object a plugin made of it.
FileRef(i) == [id |-> i, sub |-> FALSE]
NoFile == [id |-> 0, sub |-> FALSE]
Substitute(f) == [f EXCEPT !.sub = TRUE]

\* A rendered output: of names the file object it was rendered from, min says
\* a plugin rewrote it.
NoRender == [of |-> 0, data |-> "", min |-> FALSE]
Minified(r) == [r EXCEPT !.min = TRUE]

SiteData == "siteData"

\* file.render(siteData): the file's own render capability.
Render(f, siteData) == [of |-> f.id, data |-> siteData, min |-> FALSE]

NoError == [from |-> "none", call |-> 0]
Failure(phase, i) == [from |-> phase, call |-> i]

Pending == [state |-> "pending", file |-> NoFile, rendered |-> NoRender, error |-> NoError]
Resolved(f, r) == [state |-> "resolved", file |-> f, rendered |-> r, error |-> NoError]
Rejected(err) == [state |-> "rejected", file |-> NoFile, rendered |-> NoRender, error |-> err]

NoDispatch == [active |-> FALSE, phase |-> "none", file |-> NoFile,
               rendered |-> NoRender, replyFile |-> NoFile, replyRendered |-> NoRender]
Dispatch(phase, f, r) == [active |-> TRUE, phase |-> phase, file |-> f,
                          rendered |-> r, replyFile |-> NoFile, replyRendered |-> NoRender]

IdlePc == [at |-> "idle", eventBefore |-> FALSE, eventAfter |-> FALSE, orig |-> NoFile]

\* Each invocation of the async function has its own parameters and locals.
FrameShared(i) == 1
Frame(i) == i

\* Line 69: the PRE dispatch is awaited, so the call suspends there.
SuspendAtPreNever(eventBefore) == FALSE
SuspendAtPre(eventBefore) == eventBefore

\* Lines 69-72: the value the PRE dispatch resolves to is dropped; `file` keeps
\* its binding.
FileAfterPreRebound(f, preResult) == preResult
FileAfterPre(f, preResult) == f

\* No try/catch in lines 62-89: a rejected await or a throw rejects the
\* promise the async function returned.
OnFailureSwallow(err, f, r) == Resolved(f, r)
OnFailure(err, f, r) == Rejected(err)

\* Lines 75-88, run without suspension: render, then either dispatch POST and
\* suspend, or return.  cur is the call's position record and f its `file`
\* binding; gives the new values of the call's state.
FromRender(i, cur, f, throws) ==
  LET r == Render(f, SiteData) IN
  IF throws THEN
    [pc |-> [cur EXCEPT !.at = "done"], file |-> f, rendered |-> NoRender,
     pending |-> NoDispatch,
     outcome |-> OnFailure(Failure("render", i), f, NoRender),
     log |-> <<"renderThrew">>]
  ELSE IF cur.eventAfter THEN
    [pc |-> [cur EXCEPT !.at = "awaitPost"], file |-> f, rendered |-> r,
     pending |-> Dispatch("post", f, r),
     outcome |-> Pending,
     log |-> <<"render", "post">>]
  ELSE
    [pc |-> [cur EXCEPT !.at = "done"], file |-> f, rendered |-> r,
     pending |-> NoDispatch,
     outcome |-> Resolved(f, r),
     log |-> <<"render">>]

\* Lines 68-73 when eventBefore is given: dispatch PRE and suspend.
AtPre(i, cur, f) ==
  [pc |-> [cur EXCEPT !.at = "awaitPre"], file |-> f, rendered |-> NoRender,
   pending |-> Dispatch("pre", f, NoRender),
   outcome |-> Pending,
   log |-> <<>>]

\* The call's state takes the values k, and its events are appended to its log.
Advance(i, k, events) ==
  /\ pc' = [pc EXCEPT ![i] = k.pc]
  /\ file' = [file EXCEPT ![Frame(i)] = k.file]
  /\ renderedFile' = [renderedFile EXCEPT ![Frame(i)] = k.rendered]
  /\ pending' = [pending EXCEPT ![i] = k.pending]
  /\ outcome' = [outcome EXCEPT ![i] = k.outcome]
  /\ log' = [log EXCEPT ![i] = log[i] \o events \o k.log]
  /\ UNCHANGED configVars /\ UNCHANGED matchVars

\* renderFileWithPlugins(file, siteData, eventBefore, eventAfter) is called and
\* runs to its first await or to its return.  throws says whether file.render
\* throws, should this step reach it.
CallRender(i) ==
  /\ pc[i].at = "idle"
  /\ \E eventBefore \in BOOLEAN, eventAfter \in BOOLEAN, throws \in BOOLEAN :
       LET cur == [at |-> "idle", eventBefore |-> eventBefore,
                   eventAfter |-> eventAfter, orig |-> FileRef(i)]
       IN IF eventBefore
          THEN IF SuspendAtPre(eventBefore)
               THEN /\ ~throws
                    /\ Advance(i, AtPre(i, cur, FileRef(i)), <<"pre">>)
               ELSE Advance(i, FromRender(i, cur, FileRef(i), throws), <<"pre">>)
          ELSE Advance(i, FromRender(i, cur, FileRef(i), throws), <<>>)

\* The PRE dispatch resolves (to the file, or to an object a hook put in its
\* place); the call resumes at line 75.
ResolvePre(i) ==
  /\ pc[i].at = "awaitPre"
  /\ pending[i].active /\ pending[i].phase = "pre"
  /\ \E preResult \in {pending[i].file, Substitute(pending[i].file)},
        throws \in BOOLEAN :
       Advance(i, FromRender(i, pc[i], FileAfterPre(file[Frame(i)], preResult), throws),
               <<"preDone">>)

\* The PRE dispatch rejects.
RejectPre(i) ==
  /\ pc[i].at = "awaitPre"
  /\ pending[i].active /\ pending[i].phase = "pre"
  /\ Advance(i, [pc |-> [pc[i] EXCEPT !.at = "done"], file |-> file[Frame(i)],
                 rendered |-> renderedFile[Frame(i)], pending |-> NoDispatch,
                 outcome |-> OnFailure(Failure("pre", i), file[Frame(i)],
                                       renderedFile[Frame(i)]),
                 log |-> <<>>],
             <<"preRejected">>)

\* The POST dispatch resolves to a pair made from its own payload; lines 78-88
\* rebind both locals to it and return them.
ResolvePost(i) ==
  /\ pc[i].at = "awaitPost"
  /\ pending[i].active /\ pending[i].phase = "post"
  /\ \E rf \in {pending[i].file, Substitute(pending[i].file)},
        rr \in {pending[i].rendered, Minified(pending[i].rendered)} :
       Advance(i, [pc |-> [pc[i] EXCEPT !.at = "done"], file |-> rf, rendered |-> rr,
                   pending |-> [pending[i] EXCEPT !.active = FALSE,
                                                  !.replyFile = rf,
                                                  !.replyRendered = rr],
                   outcome |-> Resolved(rf, rr),
                   log |-> <<>>],
               <<"postDone">>)

\* The POST dispatch rejects.
RejectPost(i) ==
  /\ pc[i].at = "awaitPost"
  /\ pending[i].active /\ pending[i].phase = "post"
  /\ Advance(i, [pc |-> [pc[i] EXCEPT !.at = "done"], file |-> file[Frame(i)],
                 rendered |-> renderedFile[Frame(i)], pending |-> NoDispatch,
                 outcome |-> OnFailure(Failure("post", i), file[Frame(i)],
                                       renderedFile[Frame(i)]),
                 log |-> <<>>],
             <<"postRejected">>)

RenderIdle ==
  /\ pc = [i \in Calls |-> IdlePc]
  /\ file = [i \in Calls |-> NoFile]
  /\ renderedFile = [i \in Calls |-> NoRender]
  /\ pending = [i \in Calls |-> NoDispatch]
  /\ outcome = [i \in Calls |-> Pending]
  /\ log = [i \in Calls |-> <<>>]

-----------------------------------------------------------------------------
(* The configuration tree *)

\* An array-valued key: t is "array", or "undefined" when the key is absent.
Arr(items) == [t |-> "array", items |-> items]
NoArr == [t |-> "undefined", items |-> <<>>]

\* A key that holds one plugin (string or function) or an array of them.
One(x) == [t |-> x.t, v |-> x.v, items |-> <<>>]
Many(items) == [t |-> "array", v |-> <<>>, items |-> items]
NoPlugin == One(Undefined)

\* A file.defaults rule; values names the rule's `values` object.
Rule(scopePath, metadata, values) ==
  [scope |-> [path |-> scopePath, metadata |-> metadata], values |-> values]

Asset(test, use) == [test |-> test, use |-> use]

\* Object.create(null): no key at all.
EmptyTree ==
  [loaded |-> FALSE,
   incremental |-> Undefined,
   site |-> [baseurl |-> Undefined],
   path |-> [source |-> Undefined, destination |-> Undefined, templates |-> Undefined],
   file |-> [defaults |-> NoArr],
   ignore |-> NoArr,
   middlewares |-> NoPlugin,
   lifecycle |-> [willUpdate |-> NoPlugin, didUpdate |-> NoPlugin],
   assets |-> NoArr]

\* this.root
Root == <<"/", "r">>

\* What schema.validate() gives with no input: every default.
SchemaDefaults ==
  [loaded |-> TRUE,
   incremental |-> Bool("true"),
   site |-> [baseurl |-> Str(<<>>)],
   path |-> [source |-> Str(<<".", "/">>),
             destination |-> Str(<<".", "/", "_", "s">>),
             templates |-> Str(<<".", "/", "_", "t">>)],
   file |-> [defaults |-> Arr(<<>>)],
   ignore |-> Arr(<<>>),
   middlewares |-> Many(<<>>),
   lifecycle |-> [willUpdate |-> Many(<<>>), didUpdate |-> Many(<<>>)],
   assets |-> Arr(<<>>)]

\* _.defaultsDeep on a leaf: the destination keeps every value but undefined.
DefaultLeaf(dst, src) == IF dst.t = "undefined" THEN src ELSE dst

DefaultRule(d, s) ==
  [scope |-> [path |-> DefaultLeaf(d.scope.path, s.scope.path),
              metadata |-> DefaultLeaf(d.scope.metadata, s.scope.metadata)],
   values |-> DefaultLeaf(d.values, s.values)]

DefaultAsset(d, s) ==
  [test |-> DefaultLeaf(d.test, s.test), use |-> DefaultLeaf(d.use, s.use)]

\* _.defaultsDeep on two elements of an array of rules, of assets or of leaves.
DefaultElement(kind, d, s) ==
  IF kind = "rule" THEN DefaultRule(d, s)
  ELSE IF kind = "asset" THEN DefaultAsset(d, s)
  ELSE DefaultLeaf(d, s)

\* _.defaultsDeep on two arrays: merged index by index, the destination's
\* elements first.
DefaultArray(dst, src, kind) ==
  IF dst.t = "undefined" THEN src
  ELSE IF src.t # "array" THEN dst
  ELSE [dst EXCEPT !.items =
          [i \in 1..(IF Len(dst.items) > Len(src.items)
                     THEN Len(dst.items) ELSE Len(src.items)) |->
             IF i > Len(dst.items) THEN src.items[i]
             ELSE IF i > Len(src.items) THEN dst.items[i]
             ELSE DefaultElement(kind, dst.items[i], src.items[i])]]

DefaultPlugin(dst, src) ==
  IF dst.t = "undefined" THEN src
  ELSE IF dst.t = "array" /\ src.t = "array"
    THEN [t |-> "array", v |-> <<>>,
          items |-> DefaultArray(Arr(dst.items), Arr(src.items), "leaf").items]
    ELSE dst

\* _.defaultsDeep(dst, src)
DefaultsDeep(dst, src) ==
  [loaded |-> dst.loaded \/ src.loaded,
   incremental |-> DefaultLeaf(dst.incremental, src.incremental),
   site |-> [baseurl |-> DefaultLeaf(dst.site.baseurl, src.site.baseurl)],
   path |-> [source |-> DefaultLeaf(dst.path.source, src.path.source),
             destination |-> DefaultLeaf(dst.path.destination, src.path.destination),
             templates |-> DefaultLeaf(dst.path.templates, src.path.templates)],
   file |-> [defaults |-> DefaultArray(dst.file.defaults, src.file.defaults, "rule")],
   ignore |-> DefaultArray(dst.ignore, src.ignore, "leaf"),
   middlewares |-> DefaultPlugin(dst.middlewares, src.middlewares),
   lifecycle |-> [willUpdate |-> DefaultPlugin(dst.lifecycle.willUpdate,
                                               src.lifecycle.willUpdate),
                  didUpdate |-> DefaultPlugin(dst.lifecycle.didUpdate,
                                              src.lifecycle.didUpdate)],
   assets |-> DefaultArray(dst.assets, src.assets, "asset")]

\* schema.validate(config): the schema rejects a tree whose `incremental` is
\* not a boolean; otherwise value is a copy of the tree with the schema's
\* defaults filled in.
Validate(config) ==
  IF config.incremental.t \notin {"boolean", "undefined"}
  THEN [error |-> TRUE, value |-> config]
  ELSE [error |-> FALSE, value |-> DefaultsDeep(config, SchemaDefaults)]

\* Lines 105-106: the module loadConfigFile requires exports the tree or a
\* function returning it.
LoadedConfig(src) ==
  IF src.kind = "factory" THEN src.tree   \* loadedConfig()
  ELSE src.tree                           \* loadedConfig

-----------------------------------------------------------------------------
(* Config.update *)

\* Lines 118-121: what this._raw is assigned; old is the tree it held.
StoreRawMergedIntoOld(old, value) == DefaultsDeep(DefaultsDeep(old, value), SchemaDefaults)
StoreRaw(old, value) == DefaultsDeep(value, SchemaDefaults)

\* Lines 124-134: source against root, every other key against source.
ResolvePaths(r) ==
  LET source == PathResolve(Root, r.path.source.v)
  IN [r EXCEPT !.path = [source |-> Str(source),
                         destination |-> Str(PathResolve(source, r.path.destination.v)),
                         templates |-> Str(PathResolve(source, r.path.templates.v))]]

\* compareAscending on two booleans orders false before true.
Rank(b) == IF b THEN 1 ELSE 0

\* Lines 144-145: the two iteratees of _.sortBy.
CriteriaMetadataFirst(defaultObj) ==
  <<Rank(~IsNil(defaultObj.scope.metadata)),
    Len(IF defaultObj.scope.path.t = "undefined" THEN <<>> ELSE defaultObj.scope.path.v)>>
Criteria(defaultObj) ==
  <<Len(IF defaultObj.scope.path.t = "undefined" THEN <<>> ELSE defaultObj.scope.path.v),
    Rank(~IsNil(defaultObj.scope.metadata))>>

\* lodash compareMultiple: the criteria in turn, then the original index.
ComesBefore(a, b) ==
  \/ a.criteria[1] < b.criteria[1]
  \/ a.criteria[1] = b.criteria[1] /\ a.criteria[2] < b.criteria[2]
  \/ a.criteria = b.criteria /\ a.index < b.index

RECURSIVE SortEntries(_)
\* The entries in the one order ComesBefore allows.
SortEntries(entries) ==
  IF entries = {} THEN <<>>
  ELSE LET first == CHOOSE e \in entries :
                      \A o \in entries \ {e} : ComesBefore(e, o)
       IN <<first.value>> \o SortEntries(entries \ {first})

\* _.sortBy(collection, [iteratee, iteratee])
SortBy(collection) ==
  SortEntries({[criteria |-> Criteria(collection[i]), index |-> i,
                value |-> collection[i]] : i \in 1..Len(collection)})

\* Lines 143-157: sort the rules, then make every scope path absolute.
SortAndResolveDefaults(r) ==
  LET sortedDefaults == SortBy(r.file.defaults.items)
  IN [r EXCEPT !.file.defaults.items =
        [i \in 1..Len(sortedDefaults) |->
           IF ~IsNil(sortedDefaults[i].scope.path)
           THEN [sortedDefaults[i] EXCEPT !.scope.path =
                   Str(PathResolve(r.path.source.v, sortedDefaults[i].scope.path.v))]
           ELSE sortedDefaults[i]]]

\* Modules resolve.sync finds from basedir.
InstalledModules == {<<"m">>}

ModuleNotFound(name) == [t |-> "ModuleNotFound", v |-> name]

\* Lines 18-22
RequireLocalModule(moduleName) ==
  IF moduleName \in InstalledModules
  THEN [t |-> "function", v |-> <<"require">> \o moduleName]
  ELSE ModuleNotFound(moduleName)

\* Lines 160-165
ResolveMiddlewareModules(moduleVal) ==
  IF IsString(moduleVal) THEN RequireLocalModule(moduleVal.v) ELSE moduleVal

\* Lines 12-16
AssetProcessors == {<<"l", "e", "s", "s">>, <<"s", "a", "s", "s">>,
                    <<"b", "r", "o", "w", "s", "e", "r", "i", "f", "y">>}

\* Lines 181-186
ResolveUse(use) ==
  IF IsString(use)
  THEN IF use.v \in AssetProcessors
       THEN [t |-> "object", v |-> <<"assetProcessors">> \o use.v]
       ELSE RequireLocalModule(use.v)
  ELSE use

\* _.flatten(Array.of(val))
FlattenArrayOf(val) ==
  IF val.t = "array" THEN val.items ELSE <<[t |-> val.t, v |-> val.v]>>

\* Array.prototype.map stops at the first callback that throws.
Throws(results) == \E i \in 1..Len(results) : IsThrown(results[i])
FirstThrown(results) ==
  results[CHOOSE i \in 1..Len(results) :
            IsThrown(results[i]) /\ \A j \in 1..(i - 1) : ~IsThrown(results[j])]

\* newVal.map(resolveMiddlewareModules)
MapResolve(items) == [i \in 1..Len(items) |-> ResolveMiddlewareModules(items[i])]

\* Lines 180-192, one asset: use is resolved before test is compiled.
MapAsset(asset) ==
  LET useVal == ResolveUse(asset.use)
  IN IF IsThrown(useVal) THEN [test |-> useVal, use |-> useVal]
     ELSE [test |-> ValueToFunction(asset.test), use |-> useVal]

AssetThrows(results) == \E i \in 1..Len(results) : IsThrown(results[i].test)
FirstAssetThrown(results) ==
  results[CHOOSE i \in 1..Len(results) :
            IsThrown(results[i].test)
            /\ \A j \in 1..(i - 1) : ~IsThrown(results[j].test)].test

Done(r, res) == [raw |-> r, res |-> res]

\* Lines 180-192
UpdateAssets(r) ==
  LET assets == [i \in 1..Len(r.assets.items) |-> MapAsset(r.assets.items[i])]
  IN IF AssetThrows(assets) THEN Done(r, FirstAssetThrown(assets).t)
     ELSE Done([r EXCEPT !.assets.items = assets], "ok")

\* Lines 174-177: the keys of lifecycle in turn.
UpdateLifecycle(r) ==
  LET will == MapResolve(FlattenArrayOf(r.lifecycle.willUpdate))
      did == MapResolve(FlattenArrayOf(r.lifecycle.didUpdate))
      r1 == [r EXCEPT !.lifecycle.willUpdate = Many(will)]
  IN IF Throws(will) THEN Done(r, FirstThrown(will).t)
     ELSE IF Throws(did) THEN Done(r1, FirstThrown(did).t)
     ELSE UpdateAssets([r1 EXCEPT !.lifecycle.didUpdate = Many(did)])

\* Lines 171-172
UpdateMiddlewares(r) ==
  LET middlewares == FlattenArrayOf(r.middlewares)
      resolved == MapResolve(middlewares)
  IN IF Throws(resolved) THEN Done(r, FirstThrown(resolved).t)
     ELSE UpdateLifecycle([r EXCEPT !.middlewares = Many(resolved)])

\* Line 168
UpdateIgnore(r) ==
  LET ignore == [i \in 1..Len(r.ignore.items) |-> ValueToFunction(r.ignore.items[i])]
  IN IF Throws(ignore) THEN Done(r, FirstThrown(ignore).t)
     ELSE UpdateMiddlewares([r EXCEPT !.ignore.items = ignore])

\* Lines 111-115: the throw comes before line 118 assigns this._raw.
RawAtValidationErrorStored(old, validated) == validated.value
RawAtValidationError(old, validated) == old

\* update() as a whole: the tree this._raw holds when it returns or throws,
\* and "ok" or the error it throws.
UpdateOutcome(old, src) ==
  LET config == LoadedConfig(src)
      validated == Validate(config)
  IN IF validated.error
     THEN Done(RawAtValidationError(old, validated), "ValidationError")
     ELSE UpdateIgnore(SortAndResolveDefaults(ResolvePaths(StoreRaw(old, validated.value))))

-----------------------------------------------------------------------------
(* Config.get *)

\* get() with no argument.
NoPath == "undefined"

GetPaths == {"path", "path.source", "path.destination", "file.defaults",
             "ignore", "middlewares", "site.baseurl", "incremental", "nope.nope"}

Node(t) == [t |-> t, v |-> <<>>]

\* _.get(this._raw, objectPath)
LodashGet(r, objectPath) ==
  IF ~r.loaded THEN Undefined
  ELSE CASE objectPath = "path" -> Node("object")
         [] objectPath = "path.source" -> r.path.source
         [] objectPath = "path.destination" -> r.path.destination
         [] objectPath = "file.defaults" -> Node(r.file.defaults.t)
         [] objectPath = "ignore" -> Node(r.ignore.t)
         [] objectPath = "middlewares" -> [t |-> r.middlewares.t, v |-> r.middlewares.v]
         [] objectPath = "site.baseurl" -> r.site.baseurl
         [] objectPath = "incremental" -> r.incremental
         [] OTHER -> Undefined

\* Line 210: value == null
IsAbsentOnlyUndefined(value) == value.t = "undefined"
IsAbsent(value) == IsNil(value)

NoGet == [path |-> "none", threw |-> FALSE, whole |-> FALSE, value |-> Undefined]

\* Lines 203-216
GetOutcome(r, objectPath) ==
  IF objectPath = NoPath
  THEN [path |-> objectPath, threw |-> FALSE, whole |-> TRUE, value |-> Node("object")]
  ELSE LET value == LodashGet(r, objectPath)
       IN IF IsAbsent(value)
          THEN [path |-> objectPath, threw |-> TRUE, whole |-> FALSE, value |-> Undefined]
          ELSE [path |-> objectPath, threw |-> FALSE, whole |-> FALSE, value |-> value]

-----------------------------------------------------------------------------
(* The configuration files update() is run on *)

MaxRules == 3

\* How often update() is run on an unchanged file.
MaxRuns == 2

NoopMiddleware == Fn("noopMiddleware")
Metadata == Obj("draft")

S_dot == <<".", "/">>
S_posts == <<".", "/", "_", "p", "o", "s", "t", "s">>
S_bb == <<"b", "b">>
S_src == <<"s", "r", "c">>
S_abs == <<"/", "s">>
S_up == <<".", ".", "/", "o">>
S_less == <<"l", "e", "s", "s">>

\* The scopes a rule is declared with: [path, metadata].
RuleShapes ==
  {<<Undefined, Metadata>>, <<Str(S_dot), Undefined>>, <<Str(S_posts), Undefined>>,
   <<Str(S_bb), Undefined>>, <<Str(S_dot), Metadata>>}

\* The rules declared with the scopes shapes; the i-th rule's values object is
\* named after i.
Rules(shapes) ==
  [i \in 1..Len(shapes) |-> Rule(shapes[i][1], shapes[i][2], Obj(ToString(i)))]

ShapeSeqs == UNION {[1..n -> RuleShapes] : n \in 0..MaxRules}

\* The example of the sample configuration: ./ then ./_posts then metadata.
ExampleShapes == <<<<Str(S_dot), Undefined>>, <<Str(S_posts), Undefined>>,
                   <<Undefined, Metadata>>>>

BaseTree ==
  [loaded |-> TRUE,
   incremental |-> Bool("false"),
   site |-> [baseurl |-> Str(<<>>)],
   path |-> [source |-> Str(S_dot), destination |-> Undefined, templates |-> Undefined],
   file |-> [defaults |-> NoArr],
   ignore |-> NoArr,
   middlewares |-> NoPlugin,
   lifecycle |-> [willUpdate |-> One(NoopMiddleware), didUpdate |-> NoPlugin],
   assets |-> NoArr]

File(kind, tree) == [kind |-> kind, tree |-> tree]

DefaultsFamily ==
  {File("tree", [BaseTree EXCEPT !.file.defaults = Arr(Rules(sh))]) : sh \in ShapeSeqs}

PathFamily ==
  {File(k, [BaseTree EXCEPT !.path.source = s, !.path.destination = d,
                            !.file.defaults = Arr(Rules(ExampleShapes))]) :
     k \in {"tree", "factory"},
     s \in {Str(S_src), Str(S_abs)},
     d \in {Undefined, Str(S_up)}}
  \cup {File("tree", [BaseTree EXCEPT !.site.baseurl = Null])}

\* A tree whose plugins all resolve.
PluginTree ==
  [BaseTree EXCEPT
     !.middlewares = Many(<<Str(<<"m">>), NoopMiddleware>>),
     !.lifecycle = [willUpdate |-> One(Str(<<"m">>)),
                    didUpdate |-> Many(<<NoopMiddleware>>)],
     !.assets = Arr(<<Asset(Str(S_less), Str(S_less)),
                      Asset(Re(<<"a", "*">>), Obj("custom"))>>),
     !.ignore = Arr(<<Str(<<"a", ".", "b">>), Fn("always")>>),
     !.file.defaults = Arr(Rules(ExampleShapes))]

\* PluginTree, and PluginTree with one key changed to a plugin that cannot be
\* located or a string that is no regular expression.
PluginFamily ==
  {File("tree", PluginTree)}
  \cup {File("tree", [PluginTree EXCEPT !.middlewares = m]) :
          m \in {One(NoopMiddleware), One(Str(<<"x">>)),
                 Many(<<NoopMiddleware, Str(<<"x">>)>>)}}
  \cup {File("tree", [PluginTree EXCEPT !.lifecycle = l]) :
          l \in {[willUpdate |-> One(Str(<<"m">>)), didUpdate |-> Many(<<Str(<<"x">>)>>)],
                 [willUpdate |-> One(Str(<<"x">>)), didUpdate |-> One(Str(<<"m">>))]}}
  \cup {File("tree", [PluginTree EXCEPT !.assets = a]) :
          a \in {Arr(<<Asset(Str(<<"a">>), Str(<<"m">>)), Asset(Str(<<"a">>), Str(<<"x">>))>>),
                 Arr(<<Asset(Str(<<"*">>), Str(<<"m">>))>>)}}
  \cup {File("tree", [PluginTree EXCEPT !.ignore = g]) :
          g \in {Arr(<<Str(<<"*", "a">>)>>)}}

InvalidFamily ==
  {File(k, [BaseTree EXCEPT !.incremental = Str(<<"y">>),
                            !.file.defaults = Arr(Rules(ExampleShapes))]) :
     k \in {"tree", "factory"}}

Sources == DefaultsFamily \cup PathFamily \cup PluginFamily \cup InvalidFamily

\* What the file can be edited into between two updates.
Edits == PathFamily \cup PluginFamily \cup InvalidFamily

NoFileYet == File("none", EmptyTree)

\* update() runs on the configuration file as it is now: the first time any
\* file of first, later the same file again or the file edited into one of
\* later.
UpdateFrom(first, later) ==
  /\ \E src \in IF lastOp = "none" THEN first ELSE later \cup {lastSrc} :
       /\ src = lastSrc => runs < MaxRuns
       /\ raw' = UpdateOutcome(raw, src).raw
       /\ updRes' = UpdateOutcome(raw, src).res
       /\ lastSrc' = src
       /\ runs' = IF src = lastSrc THEN runs + 1 ELSE 1
  /\ lastOp' = "update"
  /\ getRes' = NoGet
  /\ UNCHANGED renderVars /\ UNCHANGED matchVars

Update == UpdateFrom(Sources, Edits)

Reconfigure == UpdateFrom(Edits, Edits)

\* get(objectPath), objectPath given or not.
Get ==
  /\ \E objectPath \in GetPaths \cup {NoPath} :
       getRes' = GetOutcome(raw, objectPath)
  /\ lastOp' = "get"
  /\ UNCHANGED <<raw, lastSrc, updRes, runs>>
  /\ UNCHANGED renderVars /\ UNCHANGED matchVars

ConfigIdle ==
  /\ raw = EmptyTree
  /\ lastSrc = NoFileYet
  /\ lastOp = "none"
  /\ updRes = "none"
  /\ getRes = NoGet
  /\ runs = 0

-----------------------------------------------------------------------------
(* Specifications *)

MatchIdleInit == mValue = Undefined /\ mPath = <<>> /\ mResult = MatchIdle

\* The configuration store under successive updates.
ConfigInit == ConfigIdle /\ RenderIdle /\ MatchIdleInit
ConfigNext == Update
SpecConfig == ConfigInit /\ [][ConfigNext]_vars

\* The configuration store read between updates.
GetInit == ConfigIdle /\ RenderIdle /\ MatchIdleInit
GetNext == Reconfigure \/ Get
SpecGet == GetInit /\ [][GetNext]_vars

\* Concurrent renderFileWithPlugins calls on one Renderer.
RenderInit == ConfigIdle /\ RenderIdle /\ MatchIdleInit
RenderNext ==
  \E i \in Calls :
    \/ CallRender(i)
    \/ ResolvePre(i)
    \/ RejectPre(i)
    \/ ResolvePost(i)
    \/ RejectPost(i)
SpecRender == RenderInit /\ [][RenderNext]_vars

\* valueToFunction on every value, its predicate on every candidate path.
MatchInit ==
  /\ ConfigIdle /\ RenderIdle
  /\ mValue \in MatchValues
  /\ mPath \in Strings
  /\ mResult = [stage |-> "start", fn |-> Undefined, matched |-> FALSE]
MatchNext == Compile \/ Apply
SpecMatch == MatchInit /\ [][MatchNext]_vars

Init == ConfigInit
Next == ConfigNext
Spec == SpecConfig

-----------------------------------------------------------------------------
(* Properties of Config *)

AllGets(r) == [p \in GetPaths \cup {NoPath} |-> GetOutcome(r, p)]

\* C1: an update() whose schema validation returns an error throws and leaves
\* the stored configuration as it was: get() and get(p), for every path p,
\* give after the call what they gave before it.
C1_ValidationErrorKeepsConfig ==
  [][(lastOp' = "update" /\ Validate(LoadedConfig(lastSrc')).error)
       => /\ updRes' = "ValidationError"
          /\ raw' = raw
          /\ AllGets(raw') = AllGets(raw)]_vars

\* C1 witness: a validation error met by a store that held a resolved tree.
C1_Witness ==
  /\ lastOp = "update" /\ updRes = "ValidationError"
  /\ raw.loaded /\ raw.path.source = Str(<<"/", "r", "/", "s", "r", "c">>)

\* C2: an update() that fails because a string-named middleware, lifecycle
\* hook or asset processor cannot be located leaves the stored configuration
\* readable through get() as it was before the call.
C2_ModuleErrorKeepsConfig ==
  [][(lastOp' = "update" /\ updRes' = "ModuleNotFound")
       => /\ raw' = raw
          /\ AllGets(raw') = AllGets(raw)]_vars

\* The rules as the configuration file declares them.
Declared == lastSrc.tree.file.defaults.items

\* The place in the declaration of the rule with the values object of rule.
DeclaredIndex(rule) ==
  CHOOSE j \in 1..Len(Declared) : Declared[j].values = rule.values

\* The composite key: length of the declared scope.path (0 when absent), then
\* 0 without scope.metadata and 1 with it.
CompositeKey(rule) ==
  <<IF rule.scope.path.t = "undefined" THEN 0 ELSE Len(rule.scope.path.v),
    IF rule.scope.metadata.t = "undefined" THEN 0 ELSE 1>>

KeyBelow(a, b) == a[1] < b[1] \/ (a[1] = b[1] /\ a[2] < b[2])

C5_GetNeverAbsent ==
  lastOp = "get" =>
    /\ getRes.path = NoPath => (~getRes.threw /\ getRes.whole)
    /\ getRes.path # NoPath =>
         (getRes.threw \/ getRes.value.t \notin {"undefined", "null"})
    /\ getRes.path # NoPath => (getRes.threw <=> IsNil(LodashGet(raw, getRes.path)))

\* C5 witness: get of a key the resolved tree holds as null has thrown.
C5_Witness ==
  /\ lastOp = "get" /\ getRes.threw /\ getRes.path = "site.baseurl"
  /\ raw.loaded /\ raw.site.baseurl = Null

-----------------------------------------------------------------------------
(* Properties of renderFileWithPlugins *)

Count(l, e) == Cardinality({k \in 1..Len(l) : l[k] = e})
Has(l, e) == \E k \in 1..Len(l) : l[k] = e
Before(l, a, b) ==
  \A k \in 1..Len(l) : l[k] = b => \E j \in 1..(k - 1) : l[j] = a

\* C6: PRE is dispatched once and has resolved before render is invoked;
\* render is invoked once and has returned before POST is dispatched; without
\* eventBefore no PRE dispatch, without eventAfter no POST dispatch.
C6_PhasesOrdered ==
  \A i \in Calls :
    LET l == log[i] IN
    /\ Count(l, "pre") <= 1
    /\ Count(l, "render") + Count(l, "renderThrew") <= 1
    /\ Count(l, "post") <= 1
    /\ (pc[i].at # "idle" /\ pc[i].eventBefore) => Count(l, "pre") = 1
    /\ ~pc[i].eventBefore => Count(l, "pre") = 0
    /\ ~pc[i].eventAfter => Count(l, "post") = 0
    /\ pc[i].eventBefore =>
         /\ Before(l, "pre", "preDone")
         /\ Before(l, "preDone", "render")
         /\ Before(l, "preDone", "renderThrew")
    /\ Before(l, "render", "post")
    /\ Before(l, "post", "postDone")
    /\ outcome[i].state = "resolved" =>
         /\ Count(l, "render") = 1
         /\ pc[i].eventAfter => Count(l, "postDone") = 1

\* C6 witness: a call with both events has run through all three phases.
C6_Witness ==
  \E i \in Calls : log[i] = <<"pre", "preDone", "render", "post", "postDone">>

\* C7: POST is dispatched with the file originally passed in and what render
\* returned; with eventAfter the call resolves to the pair POST resolved to,
\* without it to the original file and render's return value.
C7_PostPairReturned ==
  \A i \in Calls :
    /\ pending[i].phase = "post" =>
         /\ pending[i].file = pc[i].orig
         /\ pending[i].rendered = Render(pc[i].orig, SiteData)
    /\ (outcome[i].state = "resolved" /\ pc[i].eventAfter) =>
         /\ outcome[i].file = pending[i].replyFile
         /\ outcome[i].rendered = pending[i].replyRendered
    /\ (outcome[i].state = "resolved" /\ ~pc[i].eventAfter) =>
         /\ outcome[i].file = pc[i].orig
         /\ outcome[i].rendered = Render(pc[i].orig, SiteData)

\* C7 witness: after a PRE dispatch, POST has resolved to a pair that replaces
\* both the file and the rendered output, and the call has returned it.
C7_Witness ==
  \E i \in Calls :
    /\ pc[i].eventBefore /\ pc[i].eventAfter
    /\ outcome[i].state = "resolved"
    /\ outcome[i].file = Substitute(pc[i].orig)
    /\ outcome[i].rendered.min

\* C8: each of the concurrent calls resolves to a pair made of its own file
\* and its own render result, and dispatches nothing of another call.
C8_NoCrossContamination ==
  \A i \in Calls :
    /\ outcome[i].state = "resolved" =>
         /\ outcome[i].file.id = i
         /\ outcome[i].rendered.of = i
    /\ pending[i].active =>
         /\ pending[i].file.id = i
         /\ pending[i].phase = "post" => pending[i].rendered.of = i

\* C8 witness: two calls that were both suspended at PRE and at POST have
\* both resolved.
C8_Witness ==
  /\ \A i \in {1, 2} :
       /\ log[i] = <<"pre", "preDone", "render", "post", "postDone">>
       /\ outcome[i].state = "resolved"

\* C9: a failure of PRE, of render or of POST rejects the call with that
\* failure and no pair; after a PRE failure neither render nor POST happens,
\* after a render failure no POST happens.
C9_FailurePropagates ==
  \A i \in Calls :
    LET l == log[i] IN
    /\ Has(l, "preRejected") =>
         /\ outcome[i] = Rejected(Failure("pre", i))
         /\ ~Has(l, "render") /\ ~Has(l, "renderThrew") /\ ~Has(l, "post")
    /\ Has(l, "renderThrew") =>
         /\ outcome[i] = Rejected(Failure("render", i))
         /\ ~Has(l, "render") /\ ~Has(l, "post")
    /\ Has(l, "postRejected") =>
         /\ outcome[i] = Rejected(Failure("post", i))
         /\ Count(l, "render") = 1 /\ Count(l, "post") = 1
    /\ outcome[i].state = "resolved" =>
         ~(Has(l, "preRejected") \/ Has(l, "renderThrew") \/ Has(l, "postRejected"))

\* C9 witness: one call has failed in PRE, another in POST.
C9_Witness ==
  \E i, j \in Calls :
    /\ Has(log[i], "preRejected") /\ outcome[i].state = "rejected"
    /\ Has(log[j], "postRejected") /\ outcome[j].state = "rejected"

-----------------------------------------------------------------------------
(* Properties of valueToFunction *)

\* p starts with s, character for character.
StartsWith(p, s) == Len(s) <= Len(p) /\ SubSeq(p, 1, Len(s)) = s

\* C10: the predicate compiled from a string s is true of a path p exactly
\* when p starts with s as a literal string; the predicate compiled from a
\* regular expression is true exactly when the expression matches p; a
\* callable comes back as it is.
C10_MatcherLiteralPrefix ==
  /\ (mResult.stage = "applied" /\ IsString(mValue)) =>
       (mResult.matched <=> StartsWith(mPath, mValue.v))
  /\ (mResult.stage = "applied" /\ mValue.t = "regexp") =>
       (mResult.matched <=> RegExpMatch(mValue.v, mPath))
  /\ (mResult.stage \in {"compiled", "applied"} /\ IsFunction(mValue)) =>
       mResult.fn = mValue

====
